---- MODULE Spec2Model ----
(***************************************************************************)
(* Model of website/pages/en/who/runtime-developer.js: the React page      *)
(* component RuntimeDeveloper.  Its only operation is render(), which      *)
(* reads this.props (config.baseUrl, config.docsUrl, language) and returns *)
(* a tree of React elements.  JavaScript values are modelled with their    *)
(* type, so that `undefined`, the empty string and a non-empty string are  *)
(* three different things, as they are to `?:` and to default parameters.  *)
(***************************************************************************)
EXTENDS Integers, Sequences, FiniteSets

\* number of render() calls a behaviour records
MaxRenders == 2

(***************************************************************************)
(* JavaScript values reaching the component                                *)
(***************************************************************************)
Undefined == [type |-> "undefined"]
Str(s) == [type |-> "string", val |-> s]

\* ToBoolean, as applied by `x ? a : b` (lines 30, 31, 33)
Truthy(v) == v.type = "string" /\ v.val # ""

\* ToString, as applied by a template literal `${x}` (lines 30-32)
ToString(v) == IF v.type = "undefined" THEN "undefined" ELSE v.val

\* values of config.baseUrl, config.docsUrl and the language prop
BaseUrls == {Str("/"), Str("/site/"), Str("/site")}
DocsUrls == {Undefined, Str(""), Str("docs")}
Languages == {Undefined, Str(""), Str("en")}

\* the siteConfig objects and the props objects built from them
SiteConfigs == {[baseUrl |-> b, docsUrl |-> d] : b \in BaseUrls, d \in DocsUrls}
PropsSet == {[config |-> c, language |-> l] : c \in SiteConfigs, l \in Languages}

(***************************************************************************)
(* State                                                                   *)
(***************************************************************************)
VARIABLES
  props,     \* this.props of the mounted component
  state,     \* this.state of the component (the class never sets it)
  statics,   \* RuntimeDeveloper.title / .description, set at module load
  renders,   \* number of render() calls so far
  rendered   \* what those calls returned: the set of [props, page] observed

vars == <<props, state, statics, renders, rendered>>

(***************************************************************************)
(* render(): lines 28-33                                                   *)
(***************************************************************************)
\* mutation: the language defaults to "en" instead of ""
languageDefault_en(l) == IF l = Undefined THEN Str("en") ELSE l

\* `language = ""` in the destructuring of this.props (line 28)
languageDefault(l) == IF l = Undefined THEN Str("") ELSE l

\* mutation: the "/" after docsUrl is forgotten
docsPart_noSlash(docsUrl) == IF Truthy(docsUrl) THEN ToString(docsUrl) ELSE ""

\* const docsPart = `${docsUrl ? `${docsUrl}/` : ""}`  (line 30)
docsPart(docsUrl) == IF Truthy(docsUrl) THEN ToString(docsUrl) \o "/" ELSE ""

\* mutation: langPart kept in a module-level string that later renders append to
langPart_accumulating(language) ==
  LET part == IF Truthy(language) THEN ToString(language) \o "/" ELSE ""
  IN IF renders = 0 THEN part ELSE part \o part

\* const langPart = `${language ? `${language}/` : ""}`  (line 31)
langPart(language) == IF Truthy(language) THEN ToString(language) \o "/" ELSE ""

\* mutation: the language segment is put before the docs segment
docUrl_languageFirst(baseUrl, docsUrl, language, doc) ==
  ToString(baseUrl) \o langPart(language) \o docsPart(docsUrl) \o doc

\* const docUrl = doc => `${baseUrl}${docsPart}${langPart}${doc}`  (line 32)
docUrl(baseUrl, docsUrl, language, doc) ==
  ToString(baseUrl) \o docsPart(docsUrl) \o langPart(language) \o doc

\* const pageUrl = page => baseUrl + (language ? `${language}/` : "") + page  (line 33)
pageUrl(baseUrl, language, page) ==
  ToString(baseUrl) \o (IF Truthy(language) THEN ToString(language) \o "/" ELSE "") \o page

(***************************************************************************)
(* React elements                                                          *)
(***************************************************************************)
h3(text) == [type |-> "h3", className |-> "mt-3", text |-> text]
p(text) == [type |-> "p", text |-> text]
Button(href, label) ==
  [type |-> "Button", variant |-> "secondary", href |-> href,
   className |-> "m-1 primary-color", label |-> label]
Timespot(children) == [type |-> "Timespot", children |-> children]
Timeline(children) == [type |-> "Timeline", children |-> children]
Container(children) == [type |-> "Container", children |-> children]

\* <HomeSplash siteConfig language title tagline padding />  (lines 142-148)
HomeSplash(siteConfig, language) ==
  [type |-> "HomeSplash", siteConfig |-> siteConfig, language |-> language,
   title |-> "Runtime Developer", tagline |-> "So you wanna build blockchains...",
   padding |-> 0]

(***************************************************************************)
(* RuntimeDeveloperTimeline: lines 35-138                                  *)
(***************************************************************************)
\* lines 37-70
TimespotResources(baseUrl, docsUrl, language) ==
  Timespot(<<
    h3("It's dangerous to go alone!"),
    p("Before you start your journey you should become familiar with resources that can help you along the way. We have high level documentation which can help clarify unknown terms or give you a bigger picture about what Substrate is. We have a [substrate] StackOverflow tag which you can use to ask technical questions or find existing answers. Finally we have a friendly and technical chat room of developers who are happy to help you at any point during your journey."),
    Button(docUrl(baseUrl, docsUrl, language, "quickstart/getting-started"), "High Level Docs"),
    Button("https://stackoverflow.com/questions/tagged/substrate", "StackOverflow"),
    Button("https://riot.im/app/#/room/!HzySYSaIhtyWrwiwEV:matrix.org", "Riot Chat")
  >>)

\* lines 71-86
TimespotInstall(baseUrl, docsUrl, language) ==
  Timespot(<<
    h3("Install Substrate"),
    p("The first thing you need to do is set up Substrate on your computer! The instructions vary depending on which operating system you use, so take a look at the guide here to find the instructions that work for you."),
    Button(docUrl(baseUrl, docsUrl, language, "quickstart/installing-substrate"), "Installation Instructions")
  >>)

\* mutation: the workshop is linked relative to baseUrl
TimespotWorkshop_relative ==
  Timespot(<<
    h3("Substrate Collectables Workshop"),
    p("Next follow our Substrate Collectables Workshop to get a deep dive into runtime development. We will walk you through the end to end process of building a non-fungible token DApp chain, running your chain, and even building a user interface!"),
    Button(ToString(props.config.baseUrl) \o "substrate-collectables-workshop/", "Start the Workshop")
  >>)

\* lines 87-102
TimespotWorkshop ==
  Timespot(<<
    h3("Substrate Collectables Workshop"),
    p("Next follow our Substrate Collectables Workshop to get a deep dive into runtime development. We will walk you through the end to end process of building a non-fungible token DApp chain, running your chain, and even building a user interface!"),
    Button("https://substrate-developer-hub.github.io/substrate-collectables-workshop/", "Start the Workshop")
  >>)

\* mutation: the reference docs are linked under baseUrl
TimespotReference_underBaseUrl ==
  Timespot(<<
    h3("Reference Level Documentation"),
    p("Now that you are more familiar with Substrate and runtime development, you can jump into the reference level documentation which lives next to the core Substrate code. To start, you can try investigating our Substrate Runtime Module Library (SRML) by searching for \"srml\". You should now be able to read the code which powers these modules and extend your knowledge by looking at common patterns found within them."),
    Button(ToString(props.config.baseUrl) \o "rustdocs/v1.0/", "Reference Docs")
  >>)

\* lines 103-121
TimespotReference ==
  Timespot(<<
    h3("Reference Level Documentation"),
    p("Now that you are more familiar with Substrate and runtime development, you can jump into the reference level documentation which lives next to the core Substrate code. To start, you can try investigating our Substrate Runtime Module Library (SRML) by searching for \"srml\". You should now be able to read the code which powers these modules and extend your knowledge by looking at common patterns found within them."),
    Button("/rustdocs/v1.0/", "Reference Docs")
  >>)

\* lines 122-136
TimespotBuidl(href) ==
  Timespot(<<
    h3("Buidl"),
    p("You are now ready to start building your own Runtime logic! Do not forget about the community and documentation resources that we have equipped you with on this journey."),
    Button(href, "Back to Home")
  >>)

\* mutation: the last entry is left out when the site is served from the root
RuntimeDeveloperTimeline_hidesHomeAtRoot(baseUrl, docsUrl, language) ==
  Timeline(<<
    TimespotResources(baseUrl, docsUrl, language),
    TimespotInstall(baseUrl, docsUrl, language),
    TimespotWorkshop,
    TimespotReference
  >> \o (IF ToString(baseUrl) = "/" THEN << >> ELSE <<TimespotBuidl(ToString(baseUrl))>>))

\* mutation: Back to Home goes through pageUrl
RuntimeDeveloperTimeline_homeViaPageUrl(baseUrl, docsUrl, language) ==
  Timeline(<<
    TimespotResources(baseUrl, docsUrl, language),
    TimespotInstall(baseUrl, docsUrl, language),
    TimespotWorkshop,
    TimespotReference,
    TimespotBuidl(pageUrl(baseUrl, language, ""))
  >>)

\* const RuntimeDeveloperTimeline = () => (<Timeline> ... </Timeline>)
RuntimeDeveloperTimeline(baseUrl, docsUrl, language) ==
  Timeline(<<
    TimespotResources(baseUrl, docsUrl, language),
    TimespotInstall(baseUrl, docsUrl, language),
    TimespotWorkshop,
    TimespotReference,
    TimespotBuidl(ToString(baseUrl))
  >>)

\* the value render() returns for this.props = pr  (lines 28-29, 140-153)
render(pr) ==
  LET siteConfig == pr.config
      language == languageDefault(pr.language)
      baseUrl == siteConfig.baseUrl
      docsUrl == siteConfig.docsUrl
  IN [type |-> "div",
      children |-> <<
        HomeSplash(siteConfig, language),
        Container(<<RuntimeDeveloperTimeline(baseUrl, docsUrl, language)>>)
      >>]

(***************************************************************************)
(* Behaviour                                                               *)
(***************************************************************************)
Init ==
  /\ props \in PropsSet
  /\ state = Undefined
  /\ statics = [title |-> "Runtime Developer",
                description |-> "Learn how you can develop custom runtimes with Substrate."]
  /\ renders = 0
  /\ rendered = {}

\* the site build hands the component another siteConfig
SetConfig(c) ==
  /\ c # props.config
  /\ props' = [props EXCEPT !.config = c]
  /\ UNCHANGED <<state, statics, renders, rendered>>

\* the site build renders the page for another language (or for none)
SetLanguage(l) ==
  /\ l # props.language
  /\ props' = [props EXCEPT !.language = l]
  /\ UNCHANGED <<state, statics, renders, rendered>>

\* mutation: render() writes the defaulted language back into this.props
Render_writesDefault ==
  /\ renders < MaxRenders
  /\ renders' = renders + 1
  /\ rendered' = rendered \cup {[props |-> props, page |-> render(props)]}
  /\ props' = [props EXCEPT !.language = languageDefault(@)]
  /\ UNCHANGED <<state, statics>>

\* one call of RuntimeDeveloper.render()
Render ==
  /\ renders < MaxRenders
  /\ renders' = renders + 1
  /\ rendered' = rendered \cup {[props |-> props, page |-> render(props)]}
  /\ UNCHANGED <<props, state, statics>>

Next ==
  \/ \E c \in SiteConfigs : SetConfig(c)
  \/ \E l \in Languages : SetLanguage(l)
  \/ Render

Spec == Init /\ [][Next]_vars

(***************************************************************************)
(* Reading a rendered page                                                 *)
(***************************************************************************)
Splash(page) == page.children[1]
Entries(page) == page.children[2].children[1].children
OfType(elems, t) == SelectSeq(elems, LAMBDA c : c.type = t)
Texts(elems) == [i \in 1..Len(elems) |-> elems[i].text]
Labels(buttons) == [i \in 1..Len(buttons) |-> buttons[i].label]

RECURSIVE Flatten(_)
Flatten(seqs) == IF seqs = << >> THEN << >> ELSE Head(seqs) \o Flatten(Tail(seqs))

LinksOfEntry(e) ==
  LET buttons == OfType(e.children, "Button")
  IN [i \in 1..Len(buttons) |-> [label |-> buttons[i].label, href |-> buttons[i].href]]
\* the (heading, body text, list of (label, href)) tuple of a timeline entry
EntryTuple(e) ==
  <<Texts(OfType(e.children, "h3")), Texts(OfType(e.children, "p")), LinksOfEntry(e)>>
EntryTuples(page) == [i \in 1..Len(Entries(page)) |-> EntryTuple(Entries(page)[i])]
\* the entry tuples with the hrefs of the buttons labelled in `labels` blanked
EntryTuplesExceptHrefs(page, labels) ==
  [i \in 1..Len(Entries(page)) |->
    LET t == EntryTuple(Entries(page)[i])
    IN <<t[1], t[2],
         [j \in 1..Len(t[3]) |->
           IF t[3][j].label \in labels THEN [t[3][j] EXCEPT !.href = ""] ELSE t[3][j]]>>]
\* every (label, href) of the page, in document order
Links(page) == Flatten([i \in 1..Len(Entries(page)) |-> LinksOfEntry(Entries(page)[i])])
LinksExcept(page, labels) == SelectSeq(Links(page), LAMBDA l : l.label \notin labels)
HrefOf(page, label) == SelectSeq(Links(page), LAMBDA l : l.label = label)[1].href

HighLevelDocs == "High Level Docs"
InstallationInstructions == "Installation Instructions"
BackToHome == "Back to Home"
ConfiguredLabels == {HighLevelDocs, InstallationInstructions, BackToHome}

GettingStarted == "quickstart/getting-started"
InstallingSubstrate == "quickstart/installing-substrate"
Paths == {GettingStarted, InstallingSubstrate, ""}

\* a configuration value is set when it is a non-empty string
IsSet(v) == v # Undefined /\ v # Str("")

(***************************************************************************)
(* C1                                                                      *)
(***************************************************************************)
SegmentIfSet(v) == IF IsSet(v) THEN v.val \o "/" ELSE ""
ExpectedDocUrl(pr, path) ==
  pr.config.baseUrl.val \o SegmentIfSet(pr.config.docsUrl) \o SegmentIfSet(pr.language) \o path

ExampleProps == [config |-> [baseUrl |-> Str("/"), docsUrl |-> Str("docs")], language |-> Str("en")]

\* C1: the documentation URL is baseUrl, then docsUrl + "/" if docsUrl is set,
\* then language + "/" if language is set, then the path -- for the two links
\* of every render and for every path given to docUrl; the example
\* configuration ("/", "docs", "en") gives "/docs/en/quickstart/getting-started".
C1_DocUrlIsConcatenation ==
  /\ \A r \in rendered :
       /\ HrefOf(r.page, HighLevelDocs) = ExpectedDocUrl(r.props, GettingStarted)
       /\ HrefOf(r.page, InstallationInstructions) = ExpectedDocUrl(r.props, InstallingSubstrate)
       /\ r.props = ExampleProps =>
            HrefOf(r.page, HighLevelDocs) = "/docs/en/quickstart/getting-started"
  /\ \A path \in Paths :
       docUrl(props.config.baseUrl, props.config.docsUrl, languageDefault(props.language), path)
         = ExpectedDocUrl(props, path)

C1_Witness ==
  \E r \in rendered :
    /\ r.props = ExampleProps
    /\ HrefOf(r.page, HighLevelDocs) = "/docs/en/quickstart/getting-started"

RECURSIVE StripLeading(_)
StripLeading(s) ==
  IF Len(s) > 0 /\ SubSeq(s, 1, 1) = "/" THEN StripLeading(SubSeq(s, 2, Len(s))) ELSE s
RECURSIVE StripTrailing(_)
StripTrailing(s) ==
  IF Len(s) > 0 /\ SubSeq(s, Len(s), Len(s)) = "/"
    THEN StripTrailing(SubSeq(s, 1, Len(s) - 1)) ELSE s

\* the segments joined with exactly one "/" at every junction
RECURSIVE JoinWithOneSlash(_)
JoinWithOneSlash(segs) ==
  IF Len(segs) = 1 THEN segs[1]
  ELSE StripTrailing(segs[1]) \o "/" \o
       JoinWithOneSlash(<<StripLeading(segs[2])>> \o SubSeq(segs, 3, Len(segs)))

SegmentsOf(pr, path) ==
  <<pr.config.baseUrl.val>>
    \o (IF IsSet(pr.config.docsUrl) THEN <<pr.config.docsUrl.val>> ELSE << >>)
    \o (IF IsSet(pr.language) THEN <<pr.language.val>> ELSE << >>)
    \o <<path>>

WellFormedUrls(r) ==
  /\ HrefOf(r.page, HighLevelDocs) = JoinWithOneSlash(SegmentsOf(r.props, GettingStarted))
  /\ HrefOf(r.page, InstallationInstructions)
       = JoinWithOneSlash(SegmentsOf(r.props, InstallingSubstrate))
  /\ HrefOf(r.page, BackToHome) = JoinWithOneSlash(<<r.props.config.baseUrl.val>>)

EndsWithOneSlash(s) == StripTrailing(s) \o "/" = s
NoSlashAtEnds(s) == StripLeading(s) = s /\ StripTrailing(s) = s
\* baseUrl ends with one "/", and docsUrl and language, when set, carry none
SlashNormalised(pr) ==
  /\ EndsWithOneSlash(pr.config.baseUrl.val)
  /\ IsSet(pr.config.docsUrl) => NoSlashAtEnds(pr.config.docsUrl.val)
  /\ IsSet(pr.language) => NoSlashAtEnds(pr.language.val)

\* C3 as stated: for every configuration the three internal hrefs have exactly
\* one "/" between consecutive segments.
C3_WellFormedForEveryConfig == \A r \in rendered : WellFormedUrls(r)

\* C3 amended: the same, for the configurations whose baseUrl ends with one "/"
\* and whose docsUrl and language neither begin nor end with "/".
C3_WellFormedWhenSlashNormalised ==
  \A r \in rendered : SlashNormalised(r.props) => WellFormedUrls(r)

C3_Witness ==
  \E r \in rendered :
    /\ SlashNormalised(r.props)
    /\ r.props.config.baseUrl = Str("/site/")
    /\ IsSet(r.props.config.docsUrl)
    /\ IsSet(r.props.language)
    /\ HrefOf(r.page, HighLevelDocs) = "/site/docs/en/quickstart/getting-started"

(***************************************************************************)
(* C4                                                                      *)
(***************************************************************************)
\* a render() step leaves this.props, this.state and the statics alone
RenderFrame ==
  renders' # renders => props' = props /\ state' = state /\ statics' = statics

\* C4 as stated: a render writes nothing, and HomeSplash is handed the
\* siteConfig and the language value that the component received.
C4_StatelessPassThrough ==
  [][/\ RenderFrame
     /\ renders' # renders =>
          \A r \in rendered' : r.props = props =>
            /\ Splash(r.page).siteConfig = props.config
            /\ Splash(r.page).language = props.language]_vars

\* C4 amended: a render writes nothing, and HomeSplash is handed the siteConfig
\* it received and the language it received, or "" when language was omitted.
C4_StatelessPassThroughDefaulted ==
  [][/\ RenderFrame
     /\ renders' # renders =>
          \A r \in rendered' : r.props = props =>
            /\ Splash(r.page).siteConfig = props.config
            /\ Splash(r.page).language =
                 (IF props.language = Undefined THEN Str("") ELSE props.language)]_vars

\* a render with the language prop omitted has happened
C4_Witness ==
  \E r \in rendered :
    /\ r.props.language = Undefined
    /\ Splash(r.page).language = Str("")
    /\ Splash(r.page).siteConfig = r.props.config

(***************************************************************************)
(* C5                                                                      *)
(***************************************************************************)
ExpectedLabels ==
  << <<"High Level Docs", "StackOverflow", "Riot Chat">>,
     <<"Installation Instructions">>,
     <<"Start the Workshop">>,
     <<"Reference Docs">>,
     <<"Back to Home">> >>

\* C5: every page is the HomeSplash titled "Runtime Developer" followed by the
\* timeline of five entries, each one heading, one paragraph and its buttons,
\* with the same labels in the same order for every configuration.
C5_FixedPageStructure ==
  \A r \in rendered :
    /\ r.page.type = "div"
    /\ Len(r.page.children) = 2
    /\ Splash(r.page).type = "HomeSplash"
    /\ Splash(r.page).title = "Runtime Developer"
    /\ r.page.children[2].type = "Container"
    /\ Len(r.page.children[2].children) = 1
    /\ r.page.children[2].children[1].type = "Timeline"
    /\ Len(Entries(r.page)) = 5
    /\ \A i \in 1..Len(Entries(r.page)) :
         LET e == Entries(r.page)[i] IN
           /\ e.type = "Timespot"
           /\ Len(OfType(e.children, "h3")) = 1
           /\ Len(OfType(e.children, "p")) = 1
           /\ Len(e.children) = 2 + Len(OfType(e.children, "Button"))
           /\ i <= Len(ExpectedLabels)
           /\ Labels(OfType(e.children, "Button")) = ExpectedLabels[i]

\* two pages rendered for configurations that differ in all three values
C5_Witness ==
  \E r1, r2 \in rendered :
    /\ r1.props.config.baseUrl = Str("/") /\ r2.props.config.baseUrl # Str("/")
    /\ IsSet(r1.props.config.docsUrl) /\ ~IsSet(r2.props.config.docsUrl)
    /\ IsSet(r1.props.language) /\ ~IsSet(r2.props.language)
    /\ Len(Entries(r1.page)) = 5 /\ Len(Entries(r2.page)) = 5

(***************************************************************************)
(* C6                                                                      *)
(***************************************************************************)
\* C6 as stated: the (heading, body, links) tuple of every entry is the same
\* for every configuration and language.
C6_EntriesIdenticalForEveryConfig ==
  \A r1, r2 \in rendered : EntryTuples(r1.page) = EntryTuples(r2.page)

\* C6 amended: the heading, body text, labels and hrefs of every entry are the
\* same for every configuration and language, except the hrefs of High Level
\* Docs, Installation Instructions and Back to Home.
C6_EntriesIdenticalExceptConfiguredHrefs ==
  \A r1, r2 \in rendered :
    EntryTuplesExceptHrefs(r1.page, ConfiguredLabels)
      = EntryTuplesExceptHrefs(r2.page, ConfiguredLabels)

\* two renders whose entries differ, and only in the configured hrefs
C6_Witness ==
  \E r1, r2 \in rendered :
    /\ r1.props.config # r2.props.config
    /\ EntryTuples(r1.page) # EntryTuples(r2.page)
    /\ EntryTuplesExceptHrefs(r1.page, ConfiguredLabels)
         = EntryTuplesExceptHrefs(r2.page, ConfiguredLabels)

(***************************************************************************)
(* C7                                                                      *)
(***************************************************************************)
\* C7: an omitted language renders the page that language "" renders, and an
\* unset docsUrl or language adds neither a segment nor a "/" to the URL.
C7_UnsetContributesNothing ==
  /\ \A r1, r2 \in rendered :
       (/\ r1.props.config = r2.props.config
        /\ r1.props.language = Undefined
        /\ r2.props.language = Str("")) => r1.page = r2.page
  /\ \A r \in rendered :
       LET b == r.props.config.baseUrl.val
           d == r.props.config.docsUrl
           l == r.props.language
           href == HrefOf(r.page, HighLevelDocs)
       IN /\ (~IsSet(d) /\ ~IsSet(l)) => href = b \o GettingStarted
          /\ (IsSet(d) /\ ~IsSet(l)) => href = b \o d.val \o "/" \o GettingStarted
          /\ (~IsSet(d) /\ IsSet(l)) => href = b \o l.val \o "/" \o GettingStarted

\* the page rendered without a language and with language "", docsUrl unset
C7_Witness ==
  \E r1, r2 \in rendered :
    /\ r1.props.config = r2.props.config
    /\ r1.props.config.docsUrl = Undefined
    /\ r1.props.language = Undefined
    /\ r2.props.language = Str("")
    /\ HrefOf(r1.page, HighLevelDocs) = r1.props.config.baseUrl.val \o GettingStarted

(***************************************************************************)
(* C8                                                                      *)
(***************************************************************************)
\* C8: the StackOverflow, Riot Chat, Start the Workshop and Reference Docs
\* links are the same in every render (Reference Docs is "/rustdocs/v1.0/"),
\* so the only hrefs that can differ between two renders are the other three.
C8_ExternalHrefsIndependentOfConfig ==
  /\ \A r \in rendered :
       /\ Labels(LinksExcept(r.page, ConfiguredLabels))
            = <<"StackOverflow", "Riot Chat", "Start the Workshop", "Reference Docs">>
       /\ HrefOf(r.page, "Reference Docs") = "/rustdocs/v1.0/"
  /\ \A r1, r2 \in rendered :
       LinksExcept(r1.page, ConfiguredLabels) = LinksExcept(r2.page, ConfiguredLabels)

\* two renders in which all three configured hrefs differ
C8_Witness ==
  \E r1, r2 \in rendered :
    /\ r1.props.config.baseUrl = Str("/") /\ r2.props.config.baseUrl = Str("/site/")
    /\ \A label \in ConfiguredLabels : HrefOf(r1.page, label) # HrefOf(r2.page, label)
    /\ HrefOf(r2.page, "Reference Docs") = "/rustdocs/v1.0/"

(***************************************************************************)
(* C9                                                                      *)
(***************************************************************************)
DocUrlLabels == {HighLevelDocs, InstallationInstructions}

\* C9: Back to Home is baseUrl itself, never pageUrl's baseUrl + language + "/",
\* and two renders that differ only in language differ only in the two docUrl
\* links and in the language handed to HomeSplash.
C9_BackToHomeIsBaseUrl ==
  /\ \A r \in rendered :
       /\ HrefOf(r.page, BackToHome) = r.props.config.baseUrl.val
       /\ IsSet(r.props.language) =>
            HrefOf(r.page, BackToHome) # pageUrl(r.props.config.baseUrl, r.props.language, "")
  /\ \A r1, r2 \in rendered :
       r1.props.config = r2.props.config =>
         /\ EntryTuplesExceptHrefs(r1.page, DocUrlLabels)
              = EntryTuplesExceptHrefs(r2.page, DocUrlLabels)
         /\ [Splash(r1.page) EXCEPT !.language = Undefined]
              = [Splash(r2.page) EXCEPT !.language = Undefined]

\* the same siteConfig rendered with and without a language
C9_Witness ==
  \E r1, r2 \in rendered :
    /\ r1.props.config = r2.props.config
    /\ r1.props.config.baseUrl = Str("/site/")
    /\ r1.props.language = Str("en") /\ r2.props.language = Undefined
    /\ HrefOf(r1.page, BackToHome) = "/site/"
    /\ HrefOf(r2.page, BackToHome) = "/site/"
    /\ Splash(r1.page).language # Splash(r2.page).language

====
